---- MODULE Spec2Model ----
(***************************************************************************)
(* Booking ledger and rating aggregator of the ride-hailing backend        *)
(* (src/index.js, src/models/Booking.js, src/models/Driver.js).            *)
(*                                                                         *)
(* The store is the bookings collection and the drivers collection.  Every *)
(* route handler is an async function: each `await` of a database call is  *)
(* one atomic step, and handlers of different requests interleave between  *)
(* their steps.  Spec is that interleaved program; SeqSpec is the same     *)
(* program when requests arrive one after the other.  AuthSpec is the      *)
(* registration and login routes on the account collections.               *)
(***************************************************************************)
EXTENDS Integers, Sequences, FiniteSets

\* ------------------------------------------------------------------ bounds
MaxBookings == 2        \* bookings the store may hold
MaxRequests == 6        \* requests served in one run
MaxOverlaps == 1        \* requests that arrive while another one is in flight

\* ------------------------------------------------------- program constants
MinRating == 1
MaxRating == 5

\* ------------------------------------------------------------ input values
Customers == {"c1", "c2"}          \* tokens with role customer
Drivers   == {"d1", "d2"}          \* tokens with role driver
Slots     == {"r1", "r2"}          \* requests that may be in flight together

Absent    == "absent"              \* a JSON field that is missing (undefined)
NoDriver  == "absent"              \* booking.driver never assigned
NoReview  == "absent"              \* booking.review never assigned
NoRating  == -1                    \* booking.rating never assigned

\* Request bodies of POST /bookings: a complete one, and bodies with one field
\* missing, empty or not a number.
FullBody == [pickupLocation |-> "KLCC", dropoffLocation |-> "TBS",
             fare |-> "20", distance |-> "5"]
CreateInputs ==
    {FullBody,
     [FullBody EXCEPT !.pickupLocation = Absent],
     [FullBody EXCEPT !.pickupLocation = ""],
     [FullBody EXCEPT !.dropoffLocation = Absent],
     [FullBody EXCEPT !.fare = Absent],
     [FullBody EXCEPT !.fare = "abc"],
     [FullBody EXCEPT !.distance = Absent]}
RatingInputs   == {NoRating, 0, 4, 5, 6}
ReviewInputs   == {NoReview, "ok"}
BookingIds     == 1 .. (MaxBookings + 1)   \* the last id is never assigned

\* Registration and login bodies.  They carry the other required fields (name,
\* phoneNumber, ...), which no handler looks at.
Emails         == {"a@x", "b@x"}
RoleInputs     == {Absent, "customer", "driver", "admin"}
PasswordInputs == {Absent, "pw"}
LoginPasswords == {"pw", "bad"}
TypeInputs     == {Absent, "customer", "driver", "admin"}
RegisterInputs ==
    [email : Emails, password : PasswordInputs, role : RoleInputs]
Collections    == {"admins", "customers", "drivers"}

VARIABLES
    bookings,   \* the bookings collection: _id = position
    drivers,    \* the drivers collection: averageRating (in tenths), totalRatings
    now,        \* Date.now() as last read
    reqs,       \* per slot: where its handler stands and its local variables
    out,        \* the response sent by the last step, NoOut if it sent none
    winners,    \* per booking: the drivers whose accept request got 200
    listed,     \* the booking ids in the body of the last response, in order
    served,     \* number of responses sent
    overlaps,   \* number of requests that arrived while another was in flight
    accounts,   \* the admins, customers and drivers collections: identity fields
    token       \* the payload of the token the last step issued, NoToken if none

bookingVars ==
    <<bookings, drivers, now, reqs, listed, winners, served, overlaps>>

vars == <<bookings, drivers, now, reqs, out, listed, winners, served, overlaps,
          accounts, token>>

\* ------------------------------------------------------------ schema checks
\* String with required: true -- undefined and "" are rejected.
RequiredString(v) == v # Absent /\ v # ""

\* Number with required: true -- undefined and values that do not cast fail.
RequiredNumber(v) == v \in {"20", "5"}

\* rating: { type: Number, min: 1, max: 5 } -- validators skip undefined.
RatingValid(r) == r = NoRating \/ (r >= MinRating /\ r <= MaxRating)

\* The document mongoose builds for a findOne that matched nothing.
NoDoc ==
    [customer |-> Absent, driver |-> NoDriver, pickupLocation |-> Absent,
     dropoffLocation |-> Absent, fare |-> Absent, distance |-> Absent,
     status |-> Absent, rating |-> NoRating, review |-> NoReview,
     createdAt |-> 0]

Idle ==
    [pc |-> "idle", id |-> 0, user |-> Absent, rating |-> NoRating,
     review |-> NoReview, doc |-> NoDoc, driverId |-> NoDriver,
     stars |-> 0, count |-> 0]

\* A response: the route that sent it, its HTTP status and, for a rating that
\* went through, newDriverAverage in tenths.
NoAverage == -1
NoOut == [op |-> "none", code |-> 0, avg |-> NoAverage]
Response(op, code) == [op |-> op, code |-> code, avg |-> NoAverage]

Exists(id) == id \in 1 .. Len(bookings)

\* A collection slot with no account, and the step that issues no token.
NoAccount == [email |-> Absent, password |-> <<>>, role |-> Absent]
NoToken == [userId |-> <<Absent, Absent>>, role |-> Absent]

\* document.save() of a loaded document: $set of the paths that were modified
\* since it was loaded, applied to the stored document.
SaveDelta(stored, loaded, doc) ==
    [f \in DOMAIN stored |-> IF doc[f] # loaded[f] THEN doc[f] ELSE stored[f]]

Init ==
    /\ bookings = <<>>
    /\ drivers = [d \in Drivers |-> [averageRating |-> 0, totalRatings |-> 0]]
    /\ now = 0
    /\ reqs = [s \in Slots |-> Idle]
    /\ out = NoOut
    /\ listed = <<>>
    /\ winners = <<>>
    /\ served = 0
    /\ overlaps = 0
    /\ accounts = [k \in Collections |-> [e \in Emails |-> NoAccount]]
    /\ token = NoToken

\* No other handler is between two of its steps.
Alone(s) == \A o \in Slots \ {s} : reqs[o].pc = "idle"

\* A request that arrives while another handler is in flight overlaps it.
Arrive(s) == overlaps' = IF Alone(s) THEN overlaps ELSE overlaps + 1

\* A request is handled in the first free slot, while the run's budget lasts.
Accepting(s) ==
    /\ reqs[s].pc = "idle"
    /\ s = "r1" \/ reqs["r1"].pc # "idle"
    /\ served < MaxRequests
    /\ ~Alone(s) => overlaps < MaxOverlaps

\* ------------------------------------------------------- POST /bookings
\* new Booking({...}): the schema defaults fill what the handler leaves out.
NewBookingNoTimestamp(c, body, t) ==
    [customer |-> c, driver |-> NoDriver,
     pickupLocation |-> body.pickupLocation,
     dropoffLocation |-> body.dropoffLocation,
     fare |-> body.fare, distance |-> body.distance,
     status |-> "pending", rating |-> NoRating, review |-> NoReview,
     createdAt |-> 0]

NewBooking(c, body, t) ==
    [customer |-> c, driver |-> NoDriver,
     pickupLocation |-> body.pickupLocation,
     dropoffLocation |-> body.dropoffLocation,
     fare |-> body.fare, distance |-> body.distance,
     status |-> "pending", rating |-> NoRating, review |-> NoReview,
     createdAt |-> t]

\* The validation newBooking.save() runs.
CreateValid(doc) ==
    /\ doc.customer # Absent
    /\ RequiredString(doc.pickupLocation)
    /\ RequiredString(doc.dropoffLocation)
    /\ RequiredNumber(doc.fare)
    /\ RequiredNumber(doc.distance)

\* Date.now() when a booking is built: later than for the booking before it.
Clock == {now + 1}

Create(s, c, body, t) ==
    /\ Accepting(s)
    /\ Arrive(s)
    /\ IF CreateValid(NewBooking(c, body, t))
       THEN /\ Len(bookings) < MaxBookings
            /\ bookings' = Append(bookings, NewBooking(c, body, t))
            /\ winners' = Append(winners, <<>>)
            /\ now' = t
            /\ out' = Response("create", 201)
       ELSE /\ out' = Response("create", 400)
            /\ UNCHANGED <<bookings, winners, now>>
    /\ served' = served + 1
    /\ listed' = <<>>
    /\ UNCHANGED <<accounts, token>>
    /\ UNCHANGED <<drivers, reqs>>

\* ------------------------------------------- PATCH /bookings/:id/accept
\* Booking.findOne({ _id: id, status: 'pending' }) finds a document.
FoundWhateverStatus(id) == Exists(id)

FoundPending(id) == Exists(id) /\ bookings[id].status = "pending"

ClaimFind(s, id, d) ==
    /\ Accepting(s)
    /\ Arrive(s)
    /\ IF FoundPending(id)
       THEN /\ reqs' = [reqs EXCEPT ![s] =
                           [Idle EXCEPT !.pc = "accept_save", !.id = id,
                                        !.user = d, !.doc = bookings[id]]]
            /\ out' = NoOut
            /\ UNCHANGED served
       ELSE /\ out' = Response("accept", 400)
            /\ served' = served + 1
            /\ UNCHANGED reqs
    /\ listed' = <<>>
    /\ UNCHANGED <<accounts, token>>
    /\ UNCHANGED <<bookings, drivers, now, winners>>

\* The document as lines 282-283 leave it.
AcceptedAsCustomer(doc, d) == [doc EXCEPT !.customer = d, !.status = "accepted"]

AcceptedWithoutDriver(doc, d) == [doc EXCEPT !.status = "accepted"]

Accepted(doc, d) == [doc EXCEPT !.driver = d, !.status = "accepted"]

ClaimSave(s) ==
    /\ reqs[s].pc = "accept_save"
    /\ LET r == reqs[s]
           doc == Accepted(r.doc, r.user)
       IN /\ bookings' = [bookings EXCEPT
                             ![r.id] = SaveDelta(bookings[r.id], r.doc, doc)]
          /\ winners' = [winners EXCEPT ![r.id] = Append(@, r.user)]
    /\ reqs' = [reqs EXCEPT ![s] = Idle]
    /\ out' = Response("accept", 200)
    /\ served' = served + 1
    /\ listed' = <<>>
    /\ UNCHANGED <<accounts, token>>
    /\ UNCHANGED <<drivers, now, overlaps>>

\* Booking.findOne({ _id: id, customer: req.user.userId }) finds a document.
OwnedByAnyone(id, c) == Exists(id)

OwnedBy(id, c) == Exists(id) /\ bookings[id].customer = c

\* ------------------------------------------- PATCH /bookings/:id/cancel
CancelFind(s, id, c) ==
    /\ Accepting(s)
    /\ Arrive(s)
    /\ IF OwnedBy(id, c)
       THEN /\ reqs' = [reqs EXCEPT ![s] =
                           [Idle EXCEPT !.pc = "cancel_save", !.id = id,
                                        !.user = c, !.doc = bookings[id]]]
            /\ out' = NoOut
            /\ UNCHANGED served
       ELSE /\ out' = Response("cancel", 404)
            /\ served' = served + 1
            /\ UNCHANGED reqs
    /\ listed' = <<>>
    /\ UNCHANGED <<accounts, token>>
    /\ UNCHANGED <<bookings, drivers, now, winners>>

CancelSave(s) ==
    /\ reqs[s].pc = "cancel_save"
    /\ LET r == reqs[s]
           doc == [r.doc EXCEPT !.status = "cancelled"]
       IN bookings' = [bookings EXCEPT
                          ![r.id] = SaveDelta(bookings[r.id], r.doc, doc)]
    /\ reqs' = [reqs EXCEPT ![s] = Idle]
    /\ out' = Response("cancel", 200)
    /\ served' = served + 1
    /\ listed' = <<>>
    /\ UNCHANGED <<accounts, token>>
    /\ UNCHANGED <<drivers, now, winners, overlaps>>

\* --------------------------------------------- POST /bookings/:id/rate
\* Guard of lines 339-341 on the document that findOne returned.
RideNotFinishedPendingOnly(doc) == doc.status = "pending"

RideNotFinished(doc) == doc.status = "pending" \/ doc.status = "cancelled"

RateFind(s, id, c, rating, review) ==
    /\ Accepting(s)
    /\ Arrive(s)
    /\ IF ~OwnedBy(id, c)
       THEN /\ out' = Response("rate", 404)
            /\ served' = served + 1
            /\ UNCHANGED reqs
       ELSE IF RideNotFinished(bookings[id])
       THEN /\ out' = Response("rate", 400)
            /\ served' = served + 1
            /\ UNCHANGED reqs
       ELSE /\ reqs' = [reqs EXCEPT ![s] =
                           [Idle EXCEPT !.pc = "rate_save", !.id = id,
                                        !.user = c, !.rating = rating,
                                        !.review = review,
                                        !.doc = bookings[id]]]
            /\ out' = NoOut
            /\ UNCHANGED served
    /\ listed' = <<>>
    /\ UNCHANGED <<accounts, token>>
    /\ UNCHANGED <<bookings, drivers, now, winners>>

\* The document as lines 343-345 leave it.
RatedWithoutReview(doc, rating, review) ==
    [doc EXCEPT !.rating = rating, !.status = "completed"]

Rated(doc, rating, review) ==
    [doc EXCEPT !.rating = rating, !.review = review, !.status = "completed"]

\* booking.save() validates the document first; a ValidationError is thrown
\* into the handler's catch-all, which answers 500.
RateSave(s) ==
    /\ reqs[s].pc = "rate_save"
    /\ LET r == reqs[s]
           doc == Rated(r.doc, r.rating, r.review)
       IN IF RatingValid(doc.rating)
          THEN /\ bookings' = [bookings EXCEPT
                                  ![r.id] = SaveDelta(bookings[r.id], r.doc, doc)]
               /\ reqs' = [reqs EXCEPT ![s] =
                              [Idle EXCEPT !.pc = "rate_load", !.id = r.id,
                                           !.rating = r.rating,
                                           !.driverId = doc.driver]]
               /\ out' = NoOut
               /\ UNCHANGED served
          ELSE /\ reqs' = [reqs EXCEPT ![s] = Idle]
               /\ out' = Response("rate", 500)
               /\ served' = served + 1
               /\ UNCHANGED bookings
    /\ listed' = <<>>
    /\ UNCHANGED <<accounts, token>>
    /\ UNCHANGED <<drivers, now, winners, overlaps>>

\* Booking.find({ driver: driverId, rating: { $exists: true } })
BookingsOf(d) == {i \in 1 .. Len(bookings) : bookings[i].driver = d}

RatedBookingsOf(d) ==
    {i \in 1 .. Len(bookings) :
        bookings[i].driver = d /\ bookings[i].rating # NoRating}

RECURSIVE SumRatings(_)
SumRatings(ids) ==
    IF ids = {} THEN 0
    ELSE LET i == CHOOSE j \in ids : TRUE
         IN bookings[i].rating + SumRatings(ids \ {i})

RateLoad(s) ==
    /\ reqs[s].pc = "rate_load"
    /\ LET r == reqs[s]
           driverBookings == RatedBookingsOf(r.driverId)
       IN reqs' = [reqs EXCEPT ![s] =
                      [r EXCEPT !.pc = "rate_update",
                                !.stars = SumRatings(driverBookings),
                                !.count = Cardinality(driverBookings)]]
    /\ out' = NoOut
    /\ listed' = <<>>
    /\ UNCHANGED <<accounts, token>>
    /\ UNCHANGED <<bookings, drivers, now, winners, served, overlaps>>

\* (stars / count).toFixed(1), in tenths: the nearest tenth, the larger of two
\* equally near ones.  Only called with count > 0.
ToFixed1(stars, count) == (20 * stars + count) \div (2 * count)

\* Driver.findByIdAndUpdate: with no rated booking the average is NaN, the
\* string "NaN" does not cast to Number and the update throws.
RateUpdate(s) ==
    /\ reqs[s].pc = "rate_update"
    /\ LET r == reqs[s]
           driverId == r.driverId
       IN IF r.count = 0
          THEN /\ out' = Response("rate", 500)
               /\ UNCHANGED drivers
          ELSE LET newAverage == ToFixed1(r.stars, r.count)
               IN /\ drivers' =
                        IF driverId \in Drivers
                        THEN [drivers EXCEPT ![driverId] =
                                 [averageRating |-> newAverage,
                                  totalRatings |-> r.count]]
                        ELSE drivers
                  /\ out' = [op |-> "rate", code |-> 200, avg |-> newAverage]
    /\ reqs' = [reqs EXCEPT ![s] = Idle]
    /\ served' = served + 1
    /\ listed' = <<>>
    /\ UNCHANGED <<accounts, token>>
    /\ UNCHANGED <<bookings, now, winners, overlaps>>

\* --------------------------------------------------- GET /bookings/pending
\* Booking.find({ status: 'pending' })
AllBookings == 1 .. Len(bookings)

PendingBookings == {i \in 1 .. Len(bookings) : bookings[i].status = "pending"}

\* .sort({ createdAt: -1 }): the latest booking first.
RECURSIVE SortByCreatedAtDesc(_)
SortByCreatedAtDesc(ids) ==
    IF ids = {} THEN <<>>
    ELSE LET latest == CHOOSE i \in ids :
                          \A j \in ids : bookings[i].createdAt >= bookings[j].createdAt
         IN <<latest>> \o SortByCreatedAtDesc(ids \ {latest})

ListPending(s) ==
    /\ Accepting(s)
    /\ Arrive(s)
    /\ listed' = SortByCreatedAtDesc(PendingBookings)
    /\ UNCHANGED <<accounts, token>>
    /\ out' = Response("pending", 200)
    /\ served' = served + 1
    /\ UNCHANGED <<bookings, drivers, now, reqs, winners>>

\* ------------------------------- POST /users, POST /drivers, POST /auth/login
\* bcrypt.hash and bcrypt.compare: a hash matches the password it was made of.
Hash(p) == <<"bcrypt", p>>

Compare(p, h) == h = Hash(p)

\* new Customer({ ...req.body, password }): role is a schema path with default
\* 'customer', so a role in the body is stored as sent.
NewCustomer(body, hashedPassword) ==
    [email |-> body.email, password |-> hashedPassword,
     role |-> IF body.role = Absent THEN "customer" ELSE body.role]

\* new Driver({ ...req.body, password }): likewise, with default 'driver'.
NewDriver(body, hashedPassword) ==
    [email |-> body.email, password |-> hashedPassword,
     role |-> IF body.role = Absent THEN "driver" ELSE body.role]

\* new Admin({ ...req.body, password }): the admin record keeps the role tag.
NewAdmin(body, hashedPassword) ==
    [email |-> body.email, password |-> hashedPassword, role |-> body.role]

\* save() of a new account: the unique index on email rejects a second one.
SaveAccount(coll, doc, op) ==
    IF accounts[coll][doc.email] # NoAccount
    THEN /\ out' = Response(op, 400)
         /\ UNCHANGED accounts
    ELSE /\ accounts' = [accounts EXCEPT ![coll][doc.email] = doc]
         /\ out' = Response(op, 201)

\* bcrypt.hash rejects a missing password; the catch answers 400.
RegisterUser(body) ==
    /\ IF body.password = Absent
       THEN /\ out' = Response("users", 400)
            /\ UNCHANGED accounts
       ELSE IF body.role = "admin"
       THEN SaveAccount("admins", NewAdmin(body, Hash(body.password)), "users")
       ELSE SaveAccount("customers", NewCustomer(body, Hash(body.password)),
                        "users")
    /\ token' = NoToken
    /\ UNCHANGED bookingVars

RegisterDriver(body) ==
    /\ IF body.password = Absent
       THEN /\ out' = Response("drivers", 400)
            /\ UNCHANGED accounts
       ELSE SaveAccount("drivers", NewDriver(body, Hash(body.password)),
                        "drivers")
    /\ token' = NoToken
    /\ UNCHANGED bookingVars

\* The collection the login looks the email up in.
LoginCollection(type) ==
    IF type = "admin" THEN "admins"
    ELSE IF type = "driver" THEN "drivers"
    ELSE "customers"

Login(email, password, type) ==
    /\ LET coll == LoginCollection(type)
           user == accounts[coll][email]
       IN IF user = NoAccount \/ ~Compare(password, user.password)
          THEN /\ out' = Response("login", 401)
               /\ token' = NoToken
          ELSE /\ token' = [userId |-> <<coll, email>>, role |-> user.role]
               /\ out' = Response("login", 200)
    /\ UNCHANGED accounts
    /\ UNCHANGED bookingVars

\* ------------------------------------------------------------ the program
CreateReq(s) ==
    \E c \in Customers, body \in CreateInputs, t \in Clock :
       Create(s, c, body, t)

ClaimReq(s) == \E id \in BookingIds, d \in Drivers : ClaimFind(s, id, d)

CancelReq(s) == \E id \in BookingIds, c \in Customers : CancelFind(s, id, c)

RateReq(s) ==
    \E id \in BookingIds, c \in Customers, rating \in RatingInputs,
       review \in ReviewInputs : RateFind(s, id, c, rating, review)

Next ==
    \/ \E s \in Slots : CreateReq(s)
    \/ \E s \in Slots : ClaimReq(s)
    \/ \E s \in Slots : ClaimSave(s)
    \/ \E s \in Slots : CancelReq(s)
    \/ \E s \in Slots : CancelSave(s)
    \/ \E s \in Slots : RateReq(s)
    \/ \E s \in Slots : RateSave(s)
    \/ \E s \in Slots : RateLoad(s)
    \/ \E s \in Slots : RateUpdate(s)
    \/ \E s \in Slots : ListPending(s)

SeqNext ==
    \/ \E s \in Slots : Alone(s) /\ CreateReq(s)
    \/ \E s \in Slots : Alone(s) /\ ClaimReq(s)
    \/ \E s \in Slots : Alone(s) /\ ClaimSave(s)
    \/ \E s \in Slots : Alone(s) /\ CancelReq(s)
    \/ \E s \in Slots : Alone(s) /\ CancelSave(s)
    \/ \E s \in Slots : Alone(s) /\ RateReq(s)
    \/ \E s \in Slots : Alone(s) /\ RateSave(s)
    \/ \E s \in Slots : Alone(s) /\ RateLoad(s)
    \/ \E s \in Slots : Alone(s) /\ RateUpdate(s)
    \/ \E s \in Slots : Alone(s) /\ ListPending(s)

\* Registration and login, with the booking routes left out.
AuthNext ==
    \/ \E body \in RegisterInputs : RegisterUser(body)
    \/ \E body \in RegisterInputs : RegisterDriver(body)
    \/ \E email \in Emails, password \in LoginPasswords, type \in TypeInputs :
          Login(email, password, type)

Spec == Init /\ [][Next]_vars

AuthSpec == Init /\ [][AuthNext]_vars

SeqSpec == Init /\ [][SeqNext]_vars

\* ================================================================ properties
\* The bookings of store bs that count for driver d: his, with a rating.
RatedOf(bs, d) ==
    {i \in 1 .. Len(bs) : bs[i].driver = d /\ bs[i].rating # NoRating}

RECURSIVE StarsOf(_, _)
StarsOf(bs, ids) ==
    IF ids = {} THEN 0
    ELSE LET i == CHOOSE j \in ids : TRUE
         IN bs[i].rating + StarsOf(bs, ids \ {i})

\* avg (in tenths) is a tenth nearest to stars / n.
MeanToOneDecimal(avg, stars, n) ==
    LET diff == 10 * stars - avg * n
    IN 2 * (IF diff < 0 THEN -diff ELSE diff) <= n

\* The record of driver d in ds agrees with the rated bookings of store bs.
AggregateMatches(bs, ds, d) ==
    LET ids == RatedOf(bs, d)
    IN /\ ds[d].totalRatings = Cardinality(ids)
       /\ ids # {} =>
             MeanToOneDecimal(ds[d].averageRating, StarsOf(bs, ids),
                              Cardinality(ids))

\* C1: of the accept requests on one booking exactly one gets 200 (the others
\* get the 400 "already taken"), and the booking carries the driver of that
\* one request.
ClaimExactlyOnce ==
    \A b \in 1 .. Len(bookings) :
        /\ Len(winners[b]) <= 1
        /\ Len(winners[b]) = 1 => bookings[b].driver = winners[b][1]

NoRatingLost ==
    [][\A s \in Slots :
          (/\ RateUpdate(s)
           /\ out'.code = 200
           /\ Alone(s)
           /\ bookings[reqs[s].id].rating = reqs[s].rating
           /\ bookings[reqs[s].id].driver = reqs[s].driverId) =>
              AggregateMatches(bookings', drivers', reqs[s].driverId)]_vars

\* C4: a booking has a driver exactly when it is accepted or completed.
DriverIffAcceptedOrCompleted ==
    \A b \in 1 .. Len(bookings) :
        bookings[b].driver # NoDriver <=>
            bookings[b].status \in {"accepted", "completed"}

\* C5: a booking has a rating exactly when it is completed.
RatingIffCompleted ==
    \A b \in 1 .. Len(bookings) :
        bookings[b].rating # NoRating <=> bookings[b].status = "completed"

\* C6: a status only changes pending -> accepted, pending -> cancelled or
\* accepted -> completed, so completed and cancelled are never left.
LifecycleTransitions ==
    {<<"pending", "accepted">>, <<"pending", "cancelled">>,
     <<"accepted", "completed">>}

OnlyLifecycleTransitions ==
    [][\A b \in 1 .. Len(bookings) :
          bookings'[b].status # bookings[b].status =>
              /\ bookings[b].status \notin {"completed", "cancelled"}
              /\ <<bookings[b].status, bookings'[b].status>>
                     \in LifecycleTransitions]_vars

\* C7: a rate request of the owner on a pending or cancelled booking is
\* answered 400 and changes neither a booking nor a driver record.
RateUnfinishedRejected ==
    [][\A s \in Slots, id \in 1 .. Len(bookings), c \in Customers :
          (/\ bookings[id].customer = c
           /\ bookings[id].status \in {"pending", "cancelled"}) =>
              \A rating \in RatingInputs, review \in ReviewInputs :
                  RateFind(s, id, c, rating, review) =>
                      /\ out' = [op |-> "rate", code |-> 400,
                                 avg |-> NoAverage]
                      /\ reqs'[s].pc = "idle"
                      /\ bookings' = bookings
                      /\ drivers' = drivers]_vars

RateOnCancelledRejected ==
    /\ out = [op |-> "rate", code |-> 400, avg |-> NoAverage]
    /\ \E b \in 1 .. Len(bookings) :
          bookings[b].status = "cancelled" /\ bookings[b].driver # NoDriver

\* C8: a rate request whose rating is outside [1,5] is answered with a 4xx
\* validation failure and changes neither the booking nor a driver record.
OutOfRange(rating) ==
    rating # NoRating /\ (rating < MinRating \/ rating > MaxRating)

OutOfRangeRatingIs4xx ==
    [][\A s \in Slots :
          (RateSave(s) /\ OutOfRange(reqs[s].rating)) =>
              /\ out'.code \in 400 .. 499
              /\ bookings' = bookings
              /\ drivers' = drivers]_vars

\* C9: a cancel request of a customer who does not own the booking is
\* answered 404 and changes nothing; one of the owner on a pending booking
\* is answered 200 and leaves the booking cancelled.
CancelOwnedOnly ==
    [][/\ \A s \in Slots, id \in 1 .. Len(bookings), c \in Customers :
            (bookings[id].customer # c /\ CancelFind(s, id, c)) =>
                /\ out' = [op |-> "cancel", code |-> 404, avg |-> NoAverage]
                /\ reqs'[s].pc = "idle"
                /\ bookings' = bookings
       /\ \A s \in Slots, id \in 1 .. Len(bookings), c \in Customers :
            (bookings[id].customer = c /\ CancelFind(s, id, c)) =>
                /\ reqs'[s].pc = "cancel_save"
                /\ reqs'[s].id = id
       /\ \A s \in Slots :
            (CancelSave(s) /\ bookings[reqs[s].id].status = "pending") =>
                /\ out' = [op |-> "cancel", code |-> 200, avg |-> NoAverage]
                /\ bookings'[reqs[s].id].status = "cancelled"]_vars

CancelledWhilePending ==
    /\ out = [op |-> "cancel", code |-> 200, avg |-> NoAverage]
    /\ \E b \in 1 .. Len(bookings) :
          bookings[b].status = "cancelled" /\ bookings[b].driver = NoDriver

\* C10: a create request whose body carries a pickup, a dropoff, a fare and a
\* distance (non-empty texts, numbers) is answered 201 and adds, under a new
\* id, a pending booking of that customer with no driver, no rating and a
\* createdAt; the bookings stored before stay as they are.
WellFormed(body) ==
    /\ body.pickupLocation \notin {Absent, ""}
    /\ body.dropoffLocation \notin {Absent, ""}
    /\ body.fare \in {"20", "5"}
    /\ body.distance \in {"20", "5"}

CreateStoresPending ==
    [][\A s \in Slots, c \in Customers, body \in CreateInputs, t \in Clock :
          (WellFormed(body) /\ Create(s, c, body, t)) =>
              /\ out' = [op |-> "create", code |-> 201, avg |-> NoAverage]
              /\ Len(bookings') = Len(bookings) + 1
              /\ SubSeq(bookings', 1, Len(bookings)) = bookings
              /\ LET new == bookings'[Len(bookings')]
                 IN /\ new.status = "pending"
                    /\ new.customer = c
                    /\ new.driver = NoDriver
                    /\ new.rating = NoRating
                    /\ new.createdAt > 0
                    /\ new.pickupLocation = body.pickupLocation
                    /\ new.dropoffLocation = body.dropoffLocation]_vars

CreatedPending ==
    /\ out = [op |-> "create", code |-> 201, avg |-> NoAverage]
    /\ bookings # <<>>
    /\ bookings[Len(bookings)].status = "pending"
    /\ bookings[Len(bookings)].createdAt > 0

\* C11: a Claim on a booking id that does not exist, or whose booking is not
\* pending, is answered 400 at once and leaves the store as it was, the
\* booking's status and driver included.
ClaimNonPendingRejected ==
    [][\A s \in Slots, id \in BookingIds :
          (/\ reqs[s].pc = "idle"
           /\ ~(Exists(id) /\ bookings[id].status = "pending")
           /\ \E d \in Drivers : ClaimFind(s, id, d))
          => /\ out' = [op |-> "accept", code |-> 400, avg |-> NoAverage]
             /\ reqs'[s].pc = "idle"
             /\ bookings' = bookings
             /\ winners' = winners]_vars

\* A Claim was refused while the store holds an accepted, a completed or a
\* cancelled booking.
ClaimOnSettledRejected ==
    /\ out = [op |-> "accept", code |-> 400, avg |-> NoAverage]
    /\ \E b \in 1 .. Len(bookings) :
          bookings[b].status \in {"accepted", "completed", "cancelled"}

\* C12: a Rate by the owner on an accepted booking, run alone, stores
\* status completed with the submitted rating and review; when it answers
\* 200 the newDriverAverage it returns is the averageRating it wrote for the
\* booking's driver, and a first rating of 4 gives averageRating 4.0 and
\* totalRatings 1.
RateStoresAndReturnsAverage ==
    [][\A s \in Slots :
          /\ (/\ reqs[s].pc = "rate_save"
               /\ reqs[s].doc.status = "accepted"
               /\ RatingValid(reqs[s].rating)
               /\ Alone(s)
               /\ RateSave(s))
              => /\ bookings'[reqs[s].id].status = "completed"
                 /\ bookings'[reqs[s].id].rating = reqs[s].rating
                 /\ bookings'[reqs[s].id].review = reqs[s].review
          /\ (/\ reqs[s].pc = "rate_update"
               /\ Alone(s)
               /\ RateUpdate(s)
               /\ out'.code = 200)
              => LET r == reqs[s]
                 IN /\ bookings'[r.id].status = "completed"
                    /\ bookings'[r.id].rating = r.rating
                    /\ r.driverId \in Drivers
                    /\ out'.avg = drivers'[r.driverId].averageRating
                    /\ (r.rating = 4 /\ RatedBookingsOf(r.driverId) = {r.id})
                          => drivers'[r.driverId] =
                                [averageRating |-> 40, totalRatings |-> 1]]_vars

\* The first rating of driver d1, a 4 with a review, went through.
FirstRatingFour ==
    /\ out = [op |-> "rate", code |-> 200, avg |-> 40]
    /\ drivers["d1"] = [averageRating |-> 40, totalRatings |-> 1]
    /\ \E b \in 1 .. Len(bookings) :
          /\ bookings[b].driver = "d1"
          /\ bookings[b].status = "completed"
          /\ bookings[b].rating = 4
          /\ bookings[b].review = "ok"

\* C13: a Rate on a booking id that does not exist, or by a customer who is
\* not the booking's customer, is answered 404 whatever the booking's status
\* and leaves every booking and every driver record as it was.
RateNotOwnedRejected ==
    [][\A s \in Slots, id \in BookingIds, c \in Customers :
          (/\ reqs[s].pc = "idle"
           /\ ~(Exists(id) /\ bookings[id].customer = c)
           /\ \E rating \in RatingInputs, review \in ReviewInputs :
                 RateFind(s, id, c, rating, review))
          => /\ out' = [op |-> "rate", code |-> 404, avg |-> NoAverage]
             /\ reqs'[s].pc = "idle"
             /\ bookings' = bookings
             /\ drivers' = drivers]_vars

\* A Rate was answered 404 while every booking in the store could be rated
\* by its own customer.
RateByStrangerRejected ==
    /\ out = [op |-> "rate", code |-> 404, avg |-> NoAverage]
    /\ Len(bookings) > 0
    /\ \A b \in 1 .. Len(bookings) :
          bookings[b].status \in {"accepted", "completed"}

\* C14: the list of pending bookings holds every booking that is pending when
\* it is read and no other, each once, the later created first, and reading
\* it changes no booking and no driver record.
ListIsPendingLatestFirst ==
    [][\A s \in Slots :
          (reqs[s].pc = "idle" /\ ListPending(s))
          => /\ out' = [op |-> "pending", code |-> 200, avg |-> NoAverage]
             /\ {listed'[i] : i \in 1 .. Len(listed')} =
                   {b \in 1 .. Len(bookings) : bookings[b].status = "pending"}
             /\ \A i, j \in 1 .. Len(listed') :
                   i < j => /\ listed'[i] # listed'[j]
                            /\ bookings[listed'[i]].createdAt >=
                                  bookings[listed'[j]].createdAt
             /\ bookings' = bookings
             /\ drivers' = drivers]_vars

\* Two pending bookings were listed, the second one created first in the list.
ListedTwoPending ==
    /\ out = [op |-> "pending", code |-> 200, avg |-> NoAverage]
    /\ listed = <<2, 1>>
    /\ bookings[1].createdAt < bookings[2].createdAt

\* C15: no step of any handler, in any interleaving, takes a booking out of
\* the store or changes the customer, pickupLocation, dropoffLocation or
\* createdAt of a booking that is in it.
BookingFrameKept ==
    [][/\ Len(bookings') >= Len(bookings)
       /\ \A b \in 1 .. Len(bookings) :
             /\ bookings'[b].customer = bookings[b].customer
             /\ bookings'[b].pickupLocation = bookings[b].pickupLocation
             /\ bookings'[b].dropoffLocation = bookings[b].dropoffLocation
             /\ bookings'[b].createdAt = bookings[b].createdAt]_vars

\* A booking that was claimed, rated and cancelled still has what it was
\* created with.
ClaimedRatedCancelledIntact ==
    \E b \in 1 .. Len(bookings) :
       /\ bookings[b].status = "cancelled"
       /\ bookings[b].driver \in Drivers
       /\ bookings[b].rating # NoRating
       /\ bookings[b].customer \in Customers
       /\ bookings[b].pickupLocation = FullBody.pickupLocation
       /\ bookings[b].dropoffLocation = FullBody.dropoffLocation
       /\ bookings[b].createdAt > 0

\* C16: whenever a Rate request is about to divide the sum of the driver's
\* ratings by their number, it has loaded at least one rated booking.
RecomputeCountPositive ==
    \A s \in Slots : reqs[s].pc = "rate_update" => reqs[s].count >= 1

\* C17: a booking whose stored status is cancelled does not get the stored
\* status accepted or completed by any later step.
CancelledStaysCancelled ==
    [][\A b \in 1 .. Len(bookings) :
          bookings[b].status = "cancelled"
          => bookings'[b].status \notin {"accepted", "completed"}]_vars

\* C18: a Rate request that got past its ownership and status guards read a
\* booking with a driver set, and recomputes the average of a driver.
RatePastGuardsHasDriver ==
    \A s \in Slots :
       /\ reqs[s].pc = "rate_save"
          => /\ reqs[s].doc.status \in {"accepted", "completed"}
             /\ reqs[s].doc.driver \in Drivers
       /\ reqs[s].pc \in {"rate_load", "rate_update"}
          => reqs[s].driverId \in Drivers

\* A Rate request got past its guards while a Cancel of the same booking was
\* waiting to save.
RatingDuringCancel ==
    \E s, o \in Slots :
       /\ reqs[s].pc = "rate_save"
       /\ reqs[s].doc.driver \in Drivers
       /\ reqs[o].pc = "cancel_save"
       /\ reqs[o].id = reqs[s].id

\* C19: a token issued at login carries the role of the kind of account it
\* was issued for: customer for an account of the customers collection,
\* driver for one of the drivers collection, and admin only for an account of
\* the admins collection.
TokenRoleMatchesAccountKind ==
    token # NoToken
    => /\ token.userId[1] = "customers" => token.role = "customer"
       /\ token.userId[1] = "drivers" => token.role = "driver"
       /\ token.role = "admin" => token.userId[1] = "admins"

====
